---- MODULE Spec2Model ----
(***************************************************************************)
(* Numato Opsis SoC target (targets/opsis_base.py).                        *)
(*                                                                         *)
(* The module holds the state machines of the target:                      *)
(*   Spec      the clock/reset generator _CRG as running hardware: the     *)
(*             power-on-reset counter, the reset synchronizers of the      *)
(*             por, sys and base50 domains, the PLL and DCM lock signals   *)
(*             and the BUFPLL that produces the full-rate memory clock     *)
(*             and its strobe;                                             *)
(*   SpecPor   the same reset logic without the BUFPLL edges, with the     *)
(*             system clock ticking fairly;                                *)
(*   SpecPlan  the PLL factor computation of _CRG.__init__ over a range    *)
(*             of requested system frequencies;                            *)
(*   SpecSoC   the composition of BaseSoC / MiniSoC: the class bodies      *)
(*             that build csr_map, mem_map and interrupt_map, and the      *)
(*             steps of the two __init__ methods.                          *)
(***************************************************************************)
EXTENDS Integers, Sequences, FiniteSets, TLC

VARIABLES
    \* ---- _CRG hardware -------------------------------------------------
    por,                \* the por counter, Signal(max=1 << 11)
    reset,              \* ~platform.request("cpu_reset"): TRUE while pressed
    pll_lckd,           \* PLL_ADV o_LOCKED
    dcm_base50_locked,  \* DCM_CLKGEN o_LOCKED
    cd_por_sync,        \* <<rst1, cd_por.rst>> of AsyncResetSynchronizer(cd_por, ..)
    cd_sys_sync,        \* <<rst1, cd_sys.rst>>
    cd_base50_sync,     \* <<rst1, cd_base50.rst>>
    bufpll_cnt,         \* BUFPLL's count of IOCLK cycles, modulo p_DIVIDE
    cd_sdram_full_wr_clk,
    clk4x_wr_strb,
    cd_sdram_full_rd_clk,
    clk4x_rd_strb,
    \* ---- _CRG.__init__: the PLL factors --------------------------------
    crg_pc,             \* position in _CRG.__init__
    clk_freq,           \* the clk_freq argument: hz + 1/2 Hz when half
    frac,               \* f = Fraction(int(clk_freq), int(f0))
    pll_adv,            \* the PLL_ADV instance's divide/multiply parameters
    \* ---- the SoC classes and one instantiation --------------------------
    SDRAMSoC_csr_map,       \* the library base class's tables (inputs)
    SDRAMSoC_mem_map,
    SDRAMSoC_interrupt_map,
    BaseSoC_csr_map,        \* class attributes, set by the class bodies
    BaseSoC_mem_map,
    MiniSoC_csr_map,
    MiniSoC_interrupt_map,
    MiniSoC_mem_map,
    soc_pc,                 \* position in the module and in __init__
    subtarget,              \* the class that is instantiated
    kwargs,                 \* integrated_main_ram_size, firmware_ram_size
    integrated_main_ram_size,   \* self.integrated_main_ram_size
    submodules,             \* names of self.submodules
    crg,                    \* self.crg
    comb,                   \* the strobe assignments of self.comb: <<dst, src>>
    sdram_phy,              \* the phy given to register_sdram_phy
    memory_regions          \* the regions registered, in order

hw_vars == <<por, reset, pll_lckd, dcm_base50_locked, cd_por_sync, cd_sys_sync,
             cd_base50_sync, bufpll_cnt, cd_sdram_full_wr_clk, clk4x_wr_strb,
             cd_sdram_full_rd_clk, clk4x_rd_strb>>

plan_vars == <<crg_pc, clk_freq, frac, pll_adv>>

soc_tables == <<SDRAMSoC_csr_map, SDRAMSoC_mem_map, SDRAMSoC_interrupt_map,
                BaseSoC_csr_map, BaseSoC_mem_map, MiniSoC_csr_map,
                MiniSoC_interrupt_map, MiniSoC_mem_map>>

soc_self == <<integrated_main_ram_size, submodules, crg, comb, sdram_phy,
              memory_regions>>

soc_vars == <<soc_tables, soc_pc, subtarget, kwargs, soc_self>>

vars == <<hw_vars, plan_vars, soc_vars>>

(***************************************************************************)
(* _CRG: the reset logic                                                   *)
(***************************************************************************)

\* por = Signal(max=1 << 11, ...): the counter's width in bits
PorBits == 11

RECURSIVE Pow2(_)
Pow2(k) == IF k = 0 THEN 1 ELSE 2 * Pow2(k - 1)

\* reset=(1 << 11) - 1
PorReset == Pow2(PorBits) - 1

cd_por_rst == cd_por_sync[2]
cd_sys_rst == cd_sys_sync[2]
cd_base50_rst == cd_base50_sync[2]

\* AsyncResetSynchronizer(cd, async_reset): two flip-flops clocked by cd.clk,
\* both preset while async_reset is asserted; the first samples 0, the second
\* the first, and the second drives cd.rst. `was` is async_reset before the
\* step, `now` after it, `edge` whether the step is a rising edge of cd.clk.
AsyncResetSynchronizer(ff, was, now, edge) ==
    LET clocked == IF edge /\ ~was THEN <<FALSE, ff[1]>> ELSE ff
    IN  IF now THEN <<TRUE, TRUE>> ELSE clocked

\* self.sync.por += If(por != 0, por.eq(por - 1)), in a domain with a reset:
\* the value por takes at a rising edge of cd_por.clk
\* (the same without the If: the counter wraps below zero)
PorNext_NoGuard(p, rst) ==
    IF rst THEN PorReset ELSE (p - 1) % Pow2(PorBits)

PorNext(p, rst) ==
    IF rst THEN PorReset
    ELSE IF p # 0 THEN p - 1 ELSE p

\* AsyncResetSynchronizer(self.cd_sys, ~pll_lckd | (por > 0)): its reset input
\* (the same without the counter)
SysAsyncReset_LockOnly(lckd, p) == ~lckd

SysAsyncReset(lckd, p) == ~lckd \/ (p > 0)

\* AsyncResetSynchronizer(self.cd_base50, self.cd_sys.rst | ~dcm_base50_locked)
\* (the same without the system domain's reset)
Base50AsyncReset_LockOnly(sysrst, locked) == ~locked

Base50AsyncReset(sysrst, locked) == sysrst \/ ~locked

\* The three synchronizers after a step that leaves the counter at porN, the
\* button at resetN and the locks at pllN and dcmN; sysEdge and b50Edge say
\* whether the step is a rising edge of cd_sys.clk / cd_base50.clk.
Settle(porN, resetN, pllN, dcmN, sysEdge, b50Edge) ==
    LET sysN == AsyncResetSynchronizer(cd_sys_sync,
                    SysAsyncReset(pll_lckd, por), SysAsyncReset(pllN, porN), sysEdge)
    IN  /\ cd_por_sync' = AsyncResetSynchronizer(cd_por_sync, reset, resetN, sysEdge)
        /\ cd_sys_sync' = sysN
        /\ cd_base50_sync' = AsyncResetSynchronizer(cd_base50_sync,
                    Base50AsyncReset(cd_sys_rst, dcm_base50_locked),
                    Base50AsyncReset(sysN[2], dcmN), b50Edge)

bufpll_vars == <<bufpll_cnt, cd_sdram_full_wr_clk, clk4x_wr_strb,
                 cd_sdram_full_rd_clk, clk4x_rd_strb>>

\* A rising edge of cd_sys.clk, which is also cd_por.clk
\* (self.comb += self.cd_por.clk.eq(self.cd_sys.clk)).
SysClk ==
    /\ por' = PorNext(por, cd_por_rst)
    /\ Settle(por', reset, pll_lckd, dcm_base50_locked, TRUE, FALSE)
    /\ UNCHANGED <<reset, pll_lckd, dcm_base50_locked, bufpll_vars, plan_vars, soc_vars>>

\* A rising edge of cd_base50.clk (DCM_CLKGEN o_CLKFX).
Base50Clk ==
    /\ Settle(por, reset, pll_lckd, dcm_base50_locked, FALSE, TRUE)
    /\ UNCHANGED <<por, reset, pll_lckd, dcm_base50_locked, bufpll_vars, plan_vars, soc_vars>>

\* PLL_ADV o_LOCKED rises (i_RST=0: the PLL is never held in reset).
PllLock ==
    /\ ~pll_lckd
    /\ pll_lckd' = TRUE
    /\ Settle(por, reset, TRUE, dcm_base50_locked, FALSE, FALSE)
    /\ UNCHANGED <<por, reset, dcm_base50_locked, bufpll_vars, plan_vars, soc_vars>>

\* PLL_ADV o_LOCKED falls.
PllUnlock ==
    /\ pll_lckd
    /\ pll_lckd' = FALSE
    /\ Settle(por, reset, FALSE, dcm_base50_locked, FALSE, FALSE)
    /\ UNCHANGED <<por, reset, dcm_base50_locked, bufpll_vars, plan_vars, soc_vars>>

\* DCM_CLKGEN o_LOCKED rises; i_RST=ResetSignal() holds the DCM in reset
\* while cd_sys.rst is asserted.
DcmLock ==
    /\ ~dcm_base50_locked
    /\ ~cd_sys_rst
    /\ dcm_base50_locked' = TRUE
    /\ Settle(por, reset, pll_lckd, TRUE, FALSE, FALSE)
    /\ UNCHANGED <<por, reset, pll_lckd, bufpll_vars, plan_vars, soc_vars>>

\* DCM_CLKGEN o_LOCKED falls.
DcmUnlock ==
    /\ dcm_base50_locked
    /\ dcm_base50_locked' = FALSE
    /\ Settle(por, reset, pll_lckd, FALSE, FALSE, FALSE)
    /\ UNCHANGED <<por, reset, pll_lckd, bufpll_vars, plan_vars, soc_vars>>

\* The cpu_reset button is pressed: reset = ~platform.request("cpu_reset").
Press ==
    /\ ~reset
    /\ reset' = TRUE
    /\ Settle(por, TRUE, pll_lckd, dcm_base50_locked, FALSE, FALSE)
    /\ UNCHANGED <<por, pll_lckd, dcm_base50_locked, bufpll_vars, plan_vars, soc_vars>>

\* The cpu_reset button is released.
Release ==
    /\ reset
    /\ reset' = FALSE
    /\ Settle(por, FALSE, pll_lckd, dcm_base50_locked, FALSE, FALSE)
    /\ UNCHANGED <<por, pll_lckd, dcm_base50_locked, bufpll_vars, plan_vars, soc_vars>>

(***************************************************************************)
(* _CRG: the full-rate memory clock                                        *)
(***************************************************************************)

\* Instance("BUFPLL", p_DIVIDE=4, ...)
BufpllDivide == 4

\* self.comb += [cd_sdram_full_rd.clk.eq(cd_sdram_full_wr.clk),
\*               clk4x_rd_strb.eq(clk4x_wr_strb)]: the read side's values for
\* the write side's values wrClk and wrStrb; rdStrb is the read strobe so far.
\* (the read strobe registered on the clock instead of assigned)
CombRead_Registered(wrClk, wrStrb, rdStrb) ==
    [clk |-> wrClk, strb |-> IF wrClk THEN clk4x_wr_strb ELSE rdStrb]

CombRead(wrClk, wrStrb, rdStrb) == [clk |-> wrClk, strb |-> wrStrb]

\* An edge of BUFPLL's o_IOCLK (i_PLLIN=pll[0]); o_SERDESSTROBE pulses for one
\* IOCLK cycle in every p_DIVIDE while i_LOCKED is asserted.
BufpllClk ==
    LET rising == ~cd_sdram_full_wr_clk
        cntN == IF rising THEN (bufpll_cnt + 1) % BufpllDivide ELSE bufpll_cnt
        strbN == IF rising THEN pll_lckd /\ cntN = BufpllDivide - 1
                 ELSE clk4x_wr_strb
        rd == CombRead(rising, strbN, clk4x_rd_strb)
    IN  /\ cd_sdram_full_wr_clk' = rising
        /\ bufpll_cnt' = cntN
        /\ clk4x_wr_strb' = strbN
        /\ cd_sdram_full_rd_clk' = rd.clk
        /\ clk4x_rd_strb' = rd.strb
        /\ UNCHANGED <<por, reset, pll_lckd, dcm_base50_locked, cd_por_sync,
                       cd_sys_sync, cd_base50_sync, plan_vars, soc_vars>>

\* The FPGA after configuration: registers hold their reset values, the
\* synchronizers' flip-flops are preset, nothing is locked yet.
PowerOn ==
    /\ por = PorReset
    /\ pll_lckd = FALSE
    /\ dcm_base50_locked = FALSE
    /\ cd_por_sync = <<TRUE, TRUE>>
    /\ cd_sys_sync = <<TRUE, TRUE>>
    /\ cd_base50_sync = <<TRUE, TRUE>>
    /\ bufpll_cnt = 0
    /\ cd_sdram_full_wr_clk = FALSE
    /\ clk4x_wr_strb = FALSE
    /\ cd_sdram_full_rd_clk = FALSE
    /\ clk4x_rd_strb = FALSE

\* The hardware starts with the cpu_reset button pressed or not.
InitCRG == PowerOn /\ reset \in BOOLEAN

\* The hardware while a description is being composed: not yet running.
NotRunning == PowerOn /\ reset = FALSE

(***************************************************************************)
(* _CRG.__init__: the PLL factors                                          *)
(***************************************************************************)

\* f0 = 100*1000000
f0 == 100 * 1000000

\* p = 8
p == 8

RECURSIVE Gcd(_, _)
Gcd(a, b) == IF b = 0 THEN a ELSE Gcd(b, a % b)

\* Fraction(a, b) for a >= 0, b > 0: the fraction in lowest terms
Fraction(a, b) ==
    LET g == Gcd(a, b)
    IN  [numerator |-> a \div g, denominator |-> b \div g]

\* int(clk_freq): truncation of a non-negative number
IntOf(freq) == freq.hz

\* f = Fraction(int(clk_freq), int(f0)); n, m = f.denominator, f.numerator
CrgFraction(freq) ==
    LET f == Fraction(IntOf(freq), f0)
    IN  [n |-> f.denominator, m |-> f.numerator]

\* assert f0/n*m == clk_freq (true division: n divides f0, so f0/n is exact)
CrgAssert(nm, freq) ==
    /\ f0 % nm.n = 0
    /\ (f0 \div nm.n) * nm.m = freq.hz
    /\ ~freq.half

\* The PLL_ADV parameters: p_DIVCLK_DIVIDE=1, p_CLKFBOUT_MULT=m*p//n and the
\* six p_CLKOUTi_DIVIDE
PllAdv(nm) ==
    [DIVCLK_DIVIDE |-> 1,
     CLKFBOUT_MULT |-> (nm.m * p) \div nm.n,
     CLKOUT0_DIVIDE |-> p \div 4,
     CLKOUT1_DIVIDE |-> p \div 4,
     CLKOUT2_DIVIDE |-> p \div 2,
     CLKOUT3_DIVIDE |-> p \div 2,
     CLKOUT4_DIVIDE |-> p \div 1,
     CLKOUT5_DIVIDE |-> p \div 1]

NoFraction == [n |-> 0, m |-> 0]
NoPll == [DIVCLK_DIVIDE |-> 0, CLKFBOUT_MULT |-> 0,
          CLKOUT0_DIVIDE |-> 0, CLKOUT1_DIVIDE |-> 0, CLKOUT2_DIVIDE |-> 0,
          CLKOUT3_DIVIDE |-> 0, CLKOUT4_DIVIDE |-> 0, CLKOUT5_DIVIDE |-> 0]

\* lines 88-89
CrgReduce ==
    /\ crg_pc = "fraction"
    /\ frac' = CrgFraction(clk_freq)
    /\ crg_pc' = "assert"
    /\ UNCHANGED <<hw_vars, soc_vars, clk_freq, pll_adv>>

\* line 90
CrgCheck ==
    /\ crg_pc = "assert"
    /\ crg_pc' = IF CrgAssert(frac, clk_freq) THEN "pll" ELSE "AssertionError"
    /\ UNCHANGED <<hw_vars, soc_vars, clk_freq, frac, pll_adv>>

\* lines 91-115
CrgPll ==
    /\ crg_pc = "pll"
    /\ pll_adv' = PllAdv(frac)
    /\ crg_pc' = "built"
    /\ UNCHANGED <<hw_vars, soc_vars, clk_freq, frac>>

\* _CRG.__init__ has not been entered
IdlePlan ==
    /\ crg_pc = "idle"
    /\ clk_freq = [hz |-> 0, half |-> FALSE]
    /\ frac = NoFraction
    /\ pll_adv = NoPll

(***************************************************************************)
(* The SoC classes: the class bodies                                       *)
(***************************************************************************)

\* dict.update: d with every entry of o written over it
Update(d, o) ==
    [k \in DOMAIN d \cup DOMAIN o |-> IF k \in DOMAIN o THEN o[k] ELSE d[k]]

\* Addresses and sizes are counted in KiB.
MiB == 2^10

\* BaseSoC: csr_map = {"ddrphy": 16}
BaseSoC_csr_own == "ddrphy" :> 16

\* BaseSoC: mem_map = {"firmware_ram": 0x20000000}
BaseSoC_mem_own == "firmware_ram" :> 512 * MiB

\* MiniSoC: csr_map = {"ethphy": 17, "ethmac": 18}
MiniSoC_csr_own == ("ethphy" :> 17) @@ ("ethmac" :> 18)

\* MiniSoC: interrupt_map = {"ethmac": 2}
MiniSoC_interrupt_own == "ethmac" :> 2

\* MiniSoC: mem_map = {"ethmac": 0x30000000}
MiniSoC_mem_own == "ethmac" :> 768 * MiB

\* BaseSoC defines no interrupt_map: BaseSoC.interrupt_map is the inherited one
BaseSoC_interrupt_map == SDRAMSoC_interrupt_map

NoTable == [k \in {} |-> 0]

\* class BaseSoC(SDRAMSoC): the class body
ClassBaseSoC ==
    /\ soc_pc = "class BaseSoC"
    /\ BaseSoC_csr_map' = Update(BaseSoC_csr_own, SDRAMSoC_csr_map)
    /\ BaseSoC_mem_map' = Update(BaseSoC_mem_own, SDRAMSoC_mem_map)
    /\ soc_pc' = "class MiniSoC"
    /\ UNCHANGED <<hw_vars, plan_vars, SDRAMSoC_csr_map, SDRAMSoC_mem_map,
                   SDRAMSoC_interrupt_map, MiniSoC_csr_map, MiniSoC_interrupt_map,
                   MiniSoC_mem_map, subtarget, kwargs, soc_self>>

\* class MiniSoC(BaseSoC): the class body
ClassMiniSoC ==
    /\ soc_pc = "class MiniSoC"
    /\ MiniSoC_csr_map' = Update(MiniSoC_csr_own, BaseSoC_csr_map)
    /\ MiniSoC_interrupt_map' = Update(MiniSoC_interrupt_own, BaseSoC_interrupt_map)
    /\ MiniSoC_mem_map' = Update(MiniSoC_mem_own, BaseSoC_mem_map)
    /\ soc_pc' = "SDRAMSoC.__init__"
    /\ UNCHANGED <<hw_vars, plan_vars, SDRAMSoC_csr_map, SDRAMSoC_mem_map,
                   SDRAMSoC_interrupt_map, BaseSoC_csr_map, BaseSoC_mem_map,
                   subtarget, kwargs, soc_self>>

\* self.csr_map, self.mem_map, self.interrupt_map of an instance of class cls
csr_map(cls) == IF cls = "MiniSoC" THEN MiniSoC_csr_map ELSE BaseSoC_csr_map
mem_map(cls) == IF cls = "MiniSoC" THEN MiniSoC_mem_map ELSE BaseSoC_mem_map
interrupt_map(cls) ==
    IF cls = "MiniSoC" THEN MiniSoC_interrupt_map ELSE BaseSoC_interrupt_map

(***************************************************************************)
(* BaseSoC.__init__ and MiniSoC.__init__                                   *)
(***************************************************************************)

\* clk_freq = 75*1000000
BaseSoC_clk_freq == [hz |-> 75 * 1000000, half |-> FALSE]

\* self.shadow_base: 0x80000000 ("ethmac": 0x30000000, shadow @0xb0000000)
shadow_base == 2048 * MiB

NoCrg == [built |-> FALSE, signals |-> {}, pll |-> NoPll]

\* _CRG(platform, clk_freq): the strobes it declares (lines 77-78) and the PLL
\* it instantiates
CRG(freq) ==
    [built |-> TRUE,
     signals |-> {"clk4x_wr_strb", "clk4x_rd_strb"},
     pll |-> PllAdv(CrgFraction(freq))]

\* SDRAMSoC.__init__(self, platform, clk_freq, ..., **kwargs)
SDRAMSoC_init ==
    /\ soc_pc = "SDRAMSoC.__init__"
    /\ integrated_main_ram_size' = kwargs.integrated_main_ram_size
    /\ soc_pc' = "crg"
    /\ UNCHANGED <<hw_vars, plan_vars, soc_tables, subtarget, kwargs,
                   submodules, crg, comb, sdram_phy, memory_regions>>

\* self.submodules.crg = _CRG(platform, clk_freq)
BaseSoC_crg ==
    /\ soc_pc = "crg"
    /\ IF CrgAssert(CrgFraction(BaseSoC_clk_freq), BaseSoC_clk_freq)
       THEN /\ crg' = CRG(BaseSoC_clk_freq)
            /\ submodules' = submodules \cup {"crg"}
            /\ soc_pc' = "firmware_ram"
       ELSE /\ soc_pc' = "AssertionError"
            /\ UNCHANGED <<crg, submodules>>
    /\ UNCHANGED <<hw_vars, plan_vars, soc_tables, subtarget, kwargs,
                   integrated_main_ram_size, comb, sdram_phy, memory_regions>>

\* self.submodules.firmware_ram = wishbone.SRAM(firmware_ram_size)
\* self.register_mem("firmware_ram", self.mem_map["firmware_ram"], ..., size)
BaseSoC_firmware_ram ==
    /\ soc_pc = "firmware_ram"
    /\ submodules' = submodules \cup {"firmware_ram"}
    /\ memory_regions' = Append(memory_regions,
            [name |-> "firmware_ram",
             origin |-> mem_map(subtarget)["firmware_ram"],
             length |-> kwargs.firmware_ram_size])
    /\ soc_pc' = "ddrphy"
    /\ UNCHANGED <<hw_vars, plan_vars, soc_tables, subtarget, kwargs,
                   integrated_main_ram_size, crg, comb, sdram_phy>>

\* self.comb += [self.ddrphy.clk4x_wr_strb.eq(self.crg.clk4x_wr_strb),
\*               self.ddrphy.clk4x_rd_strb.eq(self.crg.clk4x_rd_strb)]
\* (the same without the read strobe)
DdrphyStrobes_WriteOnly ==
    {<<"ddrphy.clk4x_wr_strb", "crg.clk4x_wr_strb">>}

DdrphyStrobes ==
    {<<"ddrphy.clk4x_wr_strb", "crg.clk4x_wr_strb">>,
     <<"ddrphy.clk4x_rd_strb", "crg.clk4x_rd_strb">>}

\* The attributes of self.crg that the assignments read
DdrphyStrobeSources == {"clk4x_wr_strb", "clk4x_rd_strb"}

\* if not self.integrated_main_ram_size: the ddrphy, its strobes, the phy's
\* registration. Reading an attribute that self.crg does not have raises
\* AttributeError.
BaseSoC_ddrphy ==
    /\ soc_pc = "ddrphy"
    /\ IF integrated_main_ram_size = 0
       THEN IF crg.built /\ DdrphyStrobeSources \subseteq crg.signals
            THEN /\ submodules' = submodules \cup {"ddrphy"}
                 /\ comb' = comb \cup DdrphyStrobes
                 /\ sdram_phy' = "ddrphy"
                 /\ soc_pc' = "BaseSoC end"
            ELSE /\ submodules' = submodules \cup {"ddrphy"}
                 /\ soc_pc' = "AttributeError"
                 /\ UNCHANGED <<comb, sdram_phy>>
       ELSE /\ soc_pc' = "BaseSoC end"
            /\ UNCHANGED <<submodules, comb, sdram_phy>>
    /\ UNCHANGED <<hw_vars, plan_vars, soc_tables, subtarget, kwargs,
                   integrated_main_ram_size, crg, memory_regions>>

\* Keep(self.crg.cd_sys.clk), the timing constraint, the debug pin; then
\* BaseSoC.__init__ returns, into MiniSoC.__init__ for a MiniSoC
BaseSoC_end ==
    /\ soc_pc = "BaseSoC end"
    /\ soc_pc' = IF subtarget = "MiniSoC" THEN "ethernet" ELSE "done"
    /\ UNCHANGED <<hw_vars, plan_vars, soc_tables, subtarget, kwargs, soc_self>>

\* self.add_memory_region("ethmac", self.mem_map["ethmac"]+self.shadow_base, 0x2000)
EthmacRegion(cls) ==
    [name |-> "ethmac",
     origin |-> mem_map(cls)["ethmac"] + shadow_base,
     length |-> 8]

\* MiniSoC.__init__ after BaseSoC.__init__: ethphy, ethmac, its wishbone slave
\* and its memory region, the timing constraints
MiniSoC_ethernet ==
    /\ soc_pc = "ethernet"
    /\ submodules' = submodules \cup {"ethphy", "ethmac"}
    /\ memory_regions' = Append(memory_regions, EthmacRegion(subtarget))
    /\ soc_pc' = "done"
    /\ UNCHANGED <<hw_vars, plan_vars, soc_tables, subtarget, kwargs,
                   integrated_main_ram_size, crg, comb, sdram_phy>>

(***************************************************************************)
(* The inputs of a composition                                             *)
(***************************************************************************)

\* The most entries a table of the library's SDRAMSoC holds
MaxBaseEntries == 2

Injective(t) == \A a, b \in DOMAIN t : t[a] = t[b] => a = b

\* The injective tables of at most MaxBaseEntries entries over names and values
BaseTables(names, values) ==
    {t \in UNION {[D -> values] : D \in SUBSET names} :
        /\ Cardinality(DOMAIN t) <= MaxBaseEntries
        /\ Injective(t)}

\* firmware_ram_size: the default 0x8000, 0x90000000 and 0xa0000000
FirmwareRamSizes == {32, 2304 * MiB, 2560 * MiB}

\* integrated_main_ram_size: none, or 16 KiB
IntegratedMainRamSizes == {0, 16}

IdleSoC ==
    /\ SDRAMSoC_csr_map = NoTable
    /\ SDRAMSoC_mem_map = NoTable
    /\ SDRAMSoC_interrupt_map = NoTable
    /\ BaseSoC_csr_map = NoTable
    /\ BaseSoC_mem_map = NoTable
    /\ MiniSoC_csr_map = NoTable
    /\ MiniSoC_interrupt_map = NoTable
    /\ MiniSoC_mem_map = NoTable
    /\ soc_pc = "idle"
    /\ subtarget = "BaseSoC"
    /\ kwargs = [integrated_main_ram_size |-> 0, firmware_ram_size |-> 32]
    /\ integrated_main_ram_size = 0
    /\ submodules = {}
    /\ crg = NoCrg
    /\ comb = {}
    /\ sdram_phy = "None"
    /\ memory_regions = <<>>

InitSoC ==
    /\ NotRunning
    /\ IdlePlan
    /\ SDRAMSoC_csr_map \in BaseTables({"sdram", "ddrphy", "ethmac"}, {8, 16, 18})
    /\ SDRAMSoC_mem_map \in
            BaseTables({"main_ram", "firmware_ram"}, {1024 * MiB, 512 * MiB})
    /\ SDRAMSoC_interrupt_map \in BaseTables({"uart", "ethmac"}, {0, 2})
    /\ BaseSoC_csr_map = NoTable
    /\ BaseSoC_mem_map = NoTable
    /\ MiniSoC_csr_map = NoTable
    /\ MiniSoC_interrupt_map = NoTable
    /\ MiniSoC_mem_map = NoTable
    /\ soc_pc = "class BaseSoC"
    /\ subtarget \in {"BaseSoC", "MiniSoC"}
    /\ kwargs \in [integrated_main_ram_size : IntegratedMainRamSizes,
                   firmware_ram_size : FirmwareRamSizes]
    /\ integrated_main_ram_size = 0
    /\ submodules = {}
    /\ crg = NoCrg
    /\ comb = {}
    /\ sdram_phy = "None"
    /\ memory_regions = <<>>

NextSoC ==
    \/ ClassBaseSoC
    \/ ClassMiniSoC
    \/ SDRAMSoC_init
    \/ BaseSoC_crg
    \/ BaseSoC_firmware_ram
    \/ BaseSoC_ddrphy
    \/ BaseSoC_end
    \/ MiniSoC_ethernet

SpecSoC == InitSoC /\ [][NextSoC]_vars

\* The requested frequencies tried: multiples of 2.5 MHz up to MaxFreqSteps of
\* them, each also with half a hertz added.
MaxFreqSteps == 50

FreqStep == f0 \div 40

Init == InitCRG /\ IdlePlan /\ IdleSoC

InitPlan ==
    /\ NotRunning
    /\ crg_pc = "fraction"
    /\ \E k \in 1..MaxFreqSteps, h \in BOOLEAN :
            clk_freq = [hz |-> k * FreqStep, half |-> h]
    /\ frac = NoFraction
    /\ pll_adv = NoPll
    /\ IdleSoC

NextReset ==
    \/ SysClk
    \/ Base50Clk
    \/ PllLock
    \/ PllUnlock
    \/ DcmLock
    \/ DcmUnlock
    \/ Press
    \/ Release

Next ==
    \/ NextReset
    \/ BufpllClk

NextPlan ==
    \/ CrgReduce
    \/ CrgCheck
    \/ CrgPll

Spec == Init /\ [][Next]_vars

SpecPor == Init /\ [][NextReset]_vars /\ WF_vars(SysClk)

SpecPlan == InitPlan /\ [][NextPlan]_vars

\* The system frequency the emitted PLL parameters produce equals the request:
\* f0 * CLKFBOUT_MULT / (DIVCLK_DIVIDE * CLKOUT5_DIVIDE) = clk_freq, with zero
\* remainder and a multiplier that is not zero.
PllExact(pll, freq) ==
    /\ pll.CLKFBOUT_MULT # 0
    /\ ~freq.half
    /\ f0 * pll.CLKFBOUT_MULT = freq.hz * pll.DIVCLK_DIVIDE * pll.CLKOUT5_DIVIDE

\* C2: for every requested frequency the planner either emits factors that
\* reproduce it exactly (f0 * multiply / (divide * postDivide) = clk_freq), or
\* fails; it never emits rounded factors or a zero multiplier.
C2_ExactOrMismatch ==
    /\ crg_pc \in {"fraction", "assert", "pll", "built", "AssertionError"}
    /\ crg_pc = "built" => PllExact(pll_adv, clk_freq)

(***************************************************************************)
(* Properties of the clock/reset generator                                 *)
(***************************************************************************)

\* C3: in every reachable state the system domain's reset is asserted whenever
\* the power-on-reset counter is non-zero or the PLL lock signal is
\* de-asserted, also when lock drops after the counter has expired.
C3_SysResetHeld == (por # 0 \/ ~pll_lckd) => cd_sys_rst

\* C3 witness: the counter has expired, the system domain has been released,
\* and lock has dropped again: the reset is back.
C3_Witness == por = 0 /\ ~pll_lckd /\ cd_sys_rst /\ dcm_base50_locked

\* C10: in every reachable state the base50 domain's reset is asserted
\* whenever the system domain's reset is asserted or the DCM's lock is
\* de-asserted, so base50 is out of reset only with the counter at zero, the
\* PLL locked and the DCM locked.
C10_Base50ResetHeld ==
    /\ (cd_sys_rst \/ ~dcm_base50_locked) => cd_base50_rst
    /\ ~cd_base50_rst => (por = 0 /\ pll_lckd /\ dcm_base50_locked)

\* C10 witness: the base50 domain has left reset.
C10_Witness == ~cd_base50_rst /\ ~cd_sys_rst

\* C7: the full-rate read side is tied to the write side in every state: the
\* read clock equals the write clock and the read strobe the write strobe, and
\* neither read signal changes except in a step of the BUFPLL, the write
\* side's producer.
C7_ReadTiedToWrite ==
    /\ [](/\ cd_sdram_full_rd_clk = cd_sdram_full_wr_clk
          /\ clk4x_rd_strb = clk4x_wr_strb)
    /\ [][(\/ cd_sdram_full_rd_clk' # cd_sdram_full_rd_clk
           \/ clk4x_rd_strb' # clk4x_rd_strb) => BufpllClk]_vars

\* C7 witness: the BUFPLL has produced a strobe pulse, seen on the read side.
C7_Witness == clk4x_wr_strb /\ clk4x_rd_strb /\ cd_sdram_full_rd_clk

\* What a step may do to the por counter: a rising clock edge reloads it under
\* the por domain's reset, else decrements it by one while it is non-zero and
\* leaves it at zero; no other step changes it.
PorStepOK ==
    /\ (SysClk /\ ~cd_por_rst /\ por # 0) => por' = por - 1
    /\ (SysClk /\ ~cd_por_rst /\ por = 0) => por' = 0
    /\ (SysClk /\ cd_por_rst) => por' = PorReset
    /\ ~SysClk => por' = por

\* C9 as stated: once the counter has reached zero it stays at zero in every
\* later state, whatever the clock, the locks and the reset button do.
C9_CountsDownOnce == [][por = 0 => por' = 0]_vars

\* C9 as amended: the counter is 11 bits wide, starts at 2047, loses exactly 1
\* on each clock edge while it is non-zero and the por domain is out of reset,
\* never wraps below zero, and stays at zero once there for as long as the por
\* domain's reset is not asserted; an edge under that reset (the reset button)
\* reloads 2047. With the clock ticking and the button released from some
\* point on, the counter reaches zero and stays there.
C9_PorCountdown ==
    /\ por = 2047
    /\ [](por \in 0..(Pow2(PorBits) - 1))
    /\ [][PorStepOK]_vars
    /\ (<>[](~reset) => <>[](por = 0))

\* C9 witness: the counter has run down to zero and the reset button is
\* pressed, so the next clock edge reloads it.
C9_Witness == por = 0 /\ reset /\ cd_por_rst

(***************************************************************************)
(* Properties of the composition                                           *)
(***************************************************************************)

\* Both class bodies have been executed.
ClassesDefined == soc_pc \notin {"idle", "class BaseSoC", "class MiniSoC"}

\* merged is base with the derived class's own entries laid over it: a name of
\* both holds the derived value, a name of the base alone the base value.
Shadows(own, base, merged) ==
    /\ DOMAIN merged = DOMAIN own \cup DOMAIN base
    /\ \A k \in DOMAIN own : merged[k] = own[k]
    /\ \A k \in DOMAIN base \ DOMAIN own : merged[k] = base[k]

\* C1: for every resource kind and every name defined both in a derived
\* class's table and in its base class's table, the merged table holds the
\* derived class's value; a name of the base alone passes through with the
\* base value (and the class bodies raise nothing: they are executed).
C1_DerivedShadowsBase ==
    ClassesDefined =>
        /\ Shadows(BaseSoC_csr_own, SDRAMSoC_csr_map, BaseSoC_csr_map)
        /\ Shadows(BaseSoC_mem_own, SDRAMSoC_mem_map, BaseSoC_mem_map)
        /\ Shadows(MiniSoC_csr_own, BaseSoC_csr_map, MiniSoC_csr_map)
        /\ Shadows(MiniSoC_interrupt_own, BaseSoC_interrupt_map,
                   MiniSoC_interrupt_map)
        /\ Shadows(MiniSoC_mem_own, BaseSoC_mem_map, MiniSoC_mem_map)

\* C4: two names of one kind with the same value make the merge fail, so every
\* table of a composition that completes is injective: no two names share a
\* register-bank index, a memory base or an interrupt line.
C4_TablesInjective ==
    soc_pc = "done" =>
        /\ Injective(csr_map(subtarget))
        /\ Injective(mem_map(subtarget))
        /\ Injective(interrupt_map(subtarget))

\* C5: in a completed composition the ddrphy is instantiated exactly when
\* there is no integrated main memory, and its register-bank entry "ddrphy"
\* is in the instance's csr_map exactly then.
C5_DdrphyIffNoIntegratedRam ==
    soc_pc = "done" =>
        /\ "ddrphy" \in submodules <=> integrated_main_ram_size = 0
        /\ "ddrphy" \in DOMAIN csr_map(subtarget) <=> integrated_main_ram_size = 0

\* Two regions whose ranges [origin, origin + length) share no address
Disjoint(r1, r2) ==
    \/ r1.origin + r1.length <= r2.origin
    \/ r2.origin + r2.length <= r1.origin

\* C6: after a completed composition the ranges of the registered memory
\* regions are pairwise disjoint: a firmware_ram_size that makes firmware_ram
\* reach another region never yields a completed composition.
C6_RegionsDisjoint ==
    soc_pc = "done" =>
        \A i, j \in 1..Len(memory_regions) :
            i # j => Disjoint(memory_regions[i], memory_regions[j])

\* C8: whenever the ddrphy is instantiated, its write and read strobe inputs
\* are assigned from the crg's strobes; the crg, with both strobes, exists
\* when the step that wires them is reached; and a composition that completes
\* without integrated main memory has the ddrphy, wired and registered.
C8_StrobesBound ==
    /\ ("ddrphy" \in submodules /\ soc_pc # "AttributeError") =>
            /\ "crg" \in submodules
            /\ <<"ddrphy.clk4x_wr_strb", "crg.clk4x_wr_strb">> \in comb
            /\ <<"ddrphy.clk4x_rd_strb", "crg.clk4x_rd_strb">> \in comb
    /\ soc_pc = "ddrphy" =>
            /\ crg.built
            /\ {"clk4x_wr_strb", "clk4x_rd_strb"} \subseteq crg.signals
    /\ (soc_pc = "done" /\ integrated_main_ram_size = 0) =>
            /\ "ddrphy" \in submodules
            /\ sdram_phy = "ddrphy"

\* C8 witness: a MiniSoC without integrated main memory has been composed,
\* with its ddrphy and its ethmac.
C8_Witness ==
    /\ soc_pc = "done"
    /\ subtarget = "MiniSoC"
    /\ {"crg", "ddrphy", "ethmac"} \subseteq submodules

====
